---- MODULE Spec2Model ----
(***************************************************************************)
(* Model of PasswordGenerator (src/password_generator.py): the bounded,    *)
(* newest-first password history and the sampling of a password from the   *)
(* alphabet of a mode.                                                     *)
(*                                                                         *)
(* A character is its code point (ord), a password a sequence of           *)
(* characters (Python str), the history a sequence of passwords (Python    *)
(* list, index 0 of the list is index 1 of the sequence).  The mode        *)
(* constants are Cyrillic strings in the source; they are transliterated   *)
(* here because the module's strings are ASCII.                            *)
(***************************************************************************)
EXTENDS Integers, Sequences, FiniteSets, TLC

VARIABLES
    password_history,   \* self.password_history
    max_history_size,   \* self.max_history_size
    history_modes,      \* ghost: the mode each history entry was requested with
    generated,          \* ghost: the passwords generated since the history was
                        \* last empty, counted up to max_history_size + 1
    call                \* ghost: the last call made, its arguments and outcome

vars == <<password_history, max_history_size, history_modes, generated, call>>

\* The window (src/ui.py), for the specifications with a window
VARIABLES
    window,             \* "none", "constructing" (in __init__) or "shown"
    length_slider,      \* self.length_slider.value()
    length_display,     \* self.length_display.text()
    mode_combo,         \* self.mode_combo.currentData()
    password_field,     \* self.password_field.text()
    history_list,       \* the texts of the items of self.history_list
    stack,              \* the handlers that are inside processEvents, the
                        \* innermost last
    handled             \* ghost: the handler that ran last, what it was given
                        \* and whether it has returned

uivars == <<window, length_slider, length_display, mode_combo, password_field,
            history_list, stack, handled>>
allvars == <<vars, uivars>>

----------------------------------------------------------------------------
(* Bounds of the model *)

\* capacities tried at construction: 1..MaxCapacity
MaxCapacity == 2
\* number of outcomes of the random draws tried per (mode, length)
MaxDraw == 2

----------------------------------------------------------------------------
(* Program constants *)

MODE_LETTERS_ONLY == "tolko_bukvy"
MODE_LETTERS_DIGITS == "bukvy_tsifry"
MODE_FULL == "polnyj"
MODE_READABLE == "chitaemyj"

\* generate_password rejects length < 4
MinLength == 4
\* the longest length the window's slider offers
SliderMaximum == 32

Range(s) == {s[i] : i \in 1..Len(s)}

\* the characters with code points first..last, in order
CodePoints(first, last) == [i \in 1..(last - first + 1) |-> first + i - 1]

\* string.ascii_lowercase "a".."z", string.ascii_uppercase "A".."Z",
\* string.digits "0".."9" of the Python standard library
ascii_lowercase == CodePoints(97, 122)
ascii_uppercase == CodePoints(65, 90)
ascii_letters == ascii_lowercase \o ascii_uppercase
digits == CodePoints(48, 57)
\* string.punctuation: ! " # $ % & ' ( ) * + , - . /   : ; < = > ? @
\*                     [ \ ] ^ _ `   { | } ~
punctuation ==
    CodePoints(33, 47) \o CodePoints(58, 64) \o CodePoints(91, 96)
        \o CodePoints(123, 126)

\* set('il1IoO0'):  i    l   1   I    o   O   0
SimilarChars == {105, 108, 49, 73, 111, 79, 48}

----------------------------------------------------------------------------
(* The exceptions generate_password raises: both are ValueError, told apart *)
(* by their message (the second one ends with the mode it was given).  The  *)
(* messages are Russian in the source and rendered in English here.         *)

NoError == [type |-> "None", message |-> ""]
InvalidLength ==
    [type |-> "ValueError", message |-> "password length must be at least 4"]
UnknownMode(mode) ==
    [type |-> "ValueError", message |-> "unknown generation mode: " \o mode]

----------------------------------------------------------------------------
(* generate_password: the checks and the draw *)

\* as LengthTooShort, with the comparison one off: length 3 passes
LengthTooShort_OneOff(length) == length < MinLength - 1

\* if length < 4: raise
LengthTooShort(length) == length < MinLength

\* as ReadableChars, with "0" missing from the characters taken out
ReadableChars_KeepsZero ==
    SelectSeq(ascii_letters \o digits,
              LAMBDA c : c \notin (SimilarChars \ {48}))

\* ''.join(set(ascii_letters + digits) - set('il1IoO0')): the characters of
\* the difference, each once.  The order in which join visits a set is
\* unspecified; characters are drawn from it by random.choice, so only the
\* set of characters matters and they are listed here in alphabet order.
ReadableChars ==
    SelectSeq(ascii_letters \o digits, LAMBDA c : c \notin SimilarChars)

\* as ResolveMode, with the else branch falling back to the full alphabet
ResolveMode_DefaultFull(mode) ==
    IF mode = MODE_LETTERS_ONLY
    THEN [raised |-> NoError, chars |-> ascii_letters]
    ELSE IF mode = MODE_LETTERS_DIGITS
    THEN [raised |-> NoError, chars |-> ascii_letters \o digits]
    ELSE IF mode = MODE_READABLE
    THEN [raised |-> NoError,
          chars |-> SelectSeq(ascii_letters \o digits,
                              LAMBDA c : c \notin SimilarChars)]
    ELSE [raised |-> NoError, chars |-> ascii_letters \o digits \o punctuation]

\* as ResolveMode, with the first branch taking the digits too
ResolveMode_LettersWithDigits(mode) ==
    IF mode = MODE_LETTERS_ONLY \/ mode = MODE_LETTERS_DIGITS
    THEN [raised |-> NoError, chars |-> ascii_letters \o digits]
    ELSE IF mode = MODE_FULL
    THEN [raised |-> NoError, chars |-> ascii_letters \o digits \o punctuation]
    ELSE IF mode = MODE_READABLE
    THEN [raised |-> NoError,
          chars |-> SelectSeq(ascii_letters \o digits,
                              LAMBDA c : c \notin SimilarChars)]
    ELSE [raised |-> UnknownMode(mode), chars |-> <<>>]

\* the if/elif/else chain on mode: chars, or the exception of the else branch
ResolveMode(mode) ==
    IF mode = MODE_LETTERS_ONLY
    THEN [raised |-> NoError, chars |-> ascii_letters]
    ELSE IF mode = MODE_LETTERS_DIGITS
    THEN [raised |-> NoError, chars |-> ascii_letters \o digits]
    ELSE IF mode = MODE_FULL
    THEN [raised |-> NoError, chars |-> ascii_letters \o digits \o punctuation]
    ELSE IF mode = MODE_READABLE
    THEN [raised |-> NoError, chars |-> ReadableChars]
    ELSE [raised |-> UnknownMode(mode), chars |-> <<>>]

\* as Validate, with the mode checked before the length
Validate_ModeFirst(length, mode) ==
    IF mode \notin {MODE_LETTERS_ONLY, MODE_LETTERS_DIGITS, MODE_FULL,
                    MODE_READABLE}
    THEN UnknownMode(mode)
    ELSE IF length < MinLength THEN InvalidLength ELSE NoError

\* the checks at the start of generate_password, in the order they are made:
\* the exception raised, or NoError when the call goes on to draw
Validate(length, mode) ==
    IF LengthTooShort(length) THEN InvalidLength ELSE ResolveMode(mode).raised

\* as RandomPassword, drawing one character too few
RandomPassword_OneShort(chars, length, d) ==
    [j \in 1..(length - 1) |-> chars[((d * length + j - 1) % Len(chars)) + 1]]

\* ''.join(random.choice(chars) for _ in range(length)): every character is
\* an element of chars.  Of the len(chars)^length outcomes the model tries
\* MaxDraw per call: outcome d is the run of `length` consecutive characters
\* of chars that starts length*d places in, wrapping at the end (with the
\* longer length two outcomes reach the first 64 characters of chars, hence
\* all letters and digits and the first punctuation characters).
RandomPassword(chars, length, d) ==
    [j \in 1..length |-> chars[((d * length + j - 1) % Len(chars)) + 1]]

----------------------------------------------------------------------------
(* _add_to_history, as a function of the list before the call *)

\* as AddToHistory, without the pop
AddToHistory_NoPop(history, password, maximum) == <<password>> \o history

\* as AddToHistory, appending instead of inserting at the front (and then
\* dropping the first entry)
AddToHistory_Append(history, password, maximum) ==
    LET appended == history \o <<password>>
    IN  IF Len(appended) > maximum THEN Tail(appended) ELSE appended

\* as AddToHistory, popping as soon as the list reaches the maximum
AddToHistory_PopEarly(history, password, maximum) ==
    LET inserted == <<password>> \o history
    IN  IF Len(inserted) >= maximum
        THEN SubSeq(inserted, 1, Len(inserted) - 1)
        ELSE inserted

\* insert(0, password), then one pop() if the list is longer than the maximum
AddToHistory(history, password, maximum) ==
    LET inserted == <<password>> \o history
    IN  IF Len(inserted) > maximum
        THEN SubSeq(inserted, 1, Len(inserted) - 1)
        ELSE inserted

\* as Cleared, removing the newest entry only
Cleared_NewestOnly(history) == IF history = <<>> THEN <<>> ELSE Tail(history)

\* self.password_history.clear()
Cleared(history) == <<>>

----------------------------------------------------------------------------
(* Inputs *)

Capacities == 1..MaxCapacity
Lengths == {MinLength - 1, MinLength, SliderMaximum}
Modes == {MODE_LETTERS_ONLY, MODE_LETTERS_DIGITS, MODE_FULL, MODE_READABLE,
          "bogus"}
Draws == 0..(MaxDraw - 1)

Min(a, b) == IF a < b THEN a ELSE b

\* the value of `call`: the operation, its arguments, what it raised and
\* returned, and how long the history was when it was called
Called(op, length, mode, raised, value) ==
    [op |-> op, length |-> length, mode |-> mode, raised |-> raised,
     value |-> value, before |-> Len(password_history)]

----------------------------------------------------------------------------
(* Operations *)

\* no window: the generator is used on its own
NoHandler == [handler |-> "", done |-> TRUE, reply |-> ""]
NoWindow ==
    /\ window = "none"
    /\ length_slider = 0
    /\ length_display = <<>>
    /\ mode_combo = ""
    /\ password_field = <<>>
    /\ history_list = <<>>
    /\ stack = <<>>
    /\ handled = NoHandler

\* PasswordGenerator(max_history_size); the capacity is a positive integer
\* (the window constructs the generator with the default, 10)
Init ==
    /\ password_history = <<>>
    /\ max_history_size \in Capacities
    /\ history_modes = <<>>
    /\ generated = 0
    /\ call = [op |-> "__init__", length |-> 0, mode |-> "", raised |-> NoError,
               value |-> <<>>, before |-> 0]
    /\ NoWindow

\* generate_password(length, mode); d is the outcome of the random draws
GeneratePassword(length, mode, d) ==
    LET raised == Validate(length, mode)
    IN  IF raised # NoError
        THEN /\ call' = Called("generate_password", length, mode, raised, <<>>)
             /\ UNCHANGED <<password_history, max_history_size, history_modes,
                            generated>>
        ELSE LET password == RandomPassword(ResolveMode(mode).chars, length, d)
             IN  /\ password_history' =
                        AddToHistory(password_history, password,
                                     max_history_size)
                 /\ history_modes' =
                        AddToHistory(history_modes, mode, max_history_size)
                 /\ generated' = Min(generated + 1, max_history_size + 1)
                 /\ call' = Called("generate_password", length, mode, NoError,
                                   password)
                 /\ UNCHANGED max_history_size

\* as GetHistory, returning the entries oldest first
GetHistory_OldestFirst ==
    /\ call' = Called("get_history", 0, "", NoError,
                      [i \in 1..Len(password_history) |->
                          password_history[Len(password_history) + 1 - i]])
    /\ UNCHANGED <<password_history, max_history_size, history_modes,
                   generated>>

\* get_history(): returns the list
GetHistory ==
    /\ call' = Called("get_history", 0, "", NoError, password_history)
    /\ UNCHANGED <<password_history, max_history_size, history_modes,
                   generated>>

\* clear_history()
ClearHistory ==
    /\ password_history' = Cleared(password_history)
    /\ history_modes' = Cleared(history_modes)
    /\ generated' = 0
    /\ call' = Called("clear_history", 0, "", NoError, <<>>)
    /\ UNCHANGED max_history_size

Next ==
    \/ \E length \in Lengths, mode \in Modes, d \in Draws :
           GeneratePassword(length, mode, d) /\ UNCHANGED uivars
    \/ GetHistory /\ UNCHANGED uivars
    \/ ClearHistory /\ UNCHANGED uivars

Spec == Init /\ [][Next]_allvars

----------------------------------------------------------------------------
(* The lookups, and a client that keeps the list get_history returned *)

\* get_available_modes(): the list of the four constants
AvailableModes ==
    <<MODE_LETTERS_ONLY, MODE_LETTERS_DIGITS, MODE_FULL, MODE_READABLE>>

\* the descriptions dictionary (the labels are Russian in the source)
descriptions ==
    [mode \in {MODE_LETTERS_ONLY, MODE_LETTERS_DIGITS, MODE_FULL,
               MODE_READABLE} |->
        CASE mode = MODE_LETTERS_ONLY -> "Upper and lower case letters only"
          [] mode = MODE_LETTERS_DIGITS -> "Letters and digits"
          [] mode = MODE_FULL -> "Letters, digits and special characters"
          [] mode = MODE_READABLE ->
                 "Easily readable characters (no look-alikes)"]

\* as Description, with a subscript instead of get: a missing key raises
Description_Subscript(mode) ==
    IF mode \in DOMAIN descriptions
    THEN [raised |-> NoError, value |-> <<descriptions[mode]>>]
    ELSE [raised |-> [type |-> "KeyError", message |-> mode], value |-> <<>>]

\* descriptions.get(mode): an Optional[str], <<label>> or <<>> for None
Description(mode) ==
    IF mode \in DOMAIN descriptions
    THEN [raised |-> NoError, value |-> <<descriptions[mode]>>]
    ELSE [raised |-> NoError, value |-> <<>>]

\* get_available_modes()
GetAvailableModes ==
    /\ call' = Called("get_available_modes", 0, "", NoError, AvailableModes)
    /\ UNCHANGED <<password_history, max_history_size, history_modes,
                   generated>>

\* get_mode_description(mode)
GetModeDescription(mode) ==
    /\ call' = Called("get_mode_description", 0, mode,
                      Description(mode).raised, Description(mode).value)
    /\ UNCHANGED <<password_history, max_history_size, history_modes,
                   generated>>

\* a list method the client calls on the list it got from get_history:
\* append(entry), pop(0) or clear()
ListMethods == {"append", "pop", "clear"}
ListAfter(method, list, entry) ==
    CASE method = "append" -> list \o <<entry>>
      [] method = "pop" -> IF list = <<>> THEN list ELSE Tail(list)
      [] method = "clear" -> <<>>

\* the entry the client appends: the string "x"
ClientEntry == <<120>>

\* get_history returns self.password_history itself, so a list method the
\* client calls on what it was returned (right after the call, or after an
\* earlier such write) acts on the generator's history.  The client stops
\* appending once the list is longer than the maximum.
ClientWrite(method) ==
    /\ call.op \in {"get_history", "client_write"}
    /\ method = "append" => Len(password_history) <= max_history_size
    /\ password_history' = ListAfter(method, password_history, ClientEntry)
    /\ history_modes' = ListAfter(method, history_modes, "client")
    /\ call' = Called("client_write", 0, "", NoError, <<>>)
    /\ UNCHANGED <<max_history_size, generated>>

\* the calls with the shorter lengths only
ApiLengths == Lengths \ {SliderMaximum}

NextApi ==
    \/ \E length \in ApiLengths, mode \in Modes, d \in Draws :
           GeneratePassword(length, mode, d) /\ UNCHANGED uivars
    \/ GetHistory /\ UNCHANGED uivars
    \/ ClearHistory /\ UNCHANGED uivars
    \/ GetAvailableModes /\ UNCHANGED uivars
    \/ \E mode \in Modes : GetModeDescription(mode) /\ UNCHANGED uivars

\* the generator and a client that only calls its methods
SpecApi == Init /\ [][NextApi]_allvars

NextClient ==
    \/ NextApi
    \/ \E method \in ListMethods : ClientWrite(method) /\ UNCHANGED uivars

\* the generator and a client that also uses the list get_history returned
SpecClient == Init /\ [][NextClient]_allvars

----------------------------------------------------------------------------
(* The window, PasswordGeneratorUI (src/ui.py) *)

\* handlers that may be inside processEvents at once, one within the other
MaxNesting == 2
\* passwords generated before the history is cleared, with the settings left
\* alone and with the settings changed in between
MaxGenerated == 3
MaxGeneratedSettings == 2

\* PasswordGenerator() in the window: max_history_size defaults to 10
DefaultMaxHistorySize == 10
\* length_slider: setMinimum(4), setMaximum(32) (SliderMaximum), setValue(12)
SliderMinimum == 4
SliderValue == 12

\* str(n) for an integer, as characters
RECURSIVE Str(_)
Str(n) ==
    IF n < 0 THEN <<45>> \o Str(0 - n)
    ELSE IF n < 10 THEN <<48 + n>>
    ELSE Str(n \div 10) \o <<48 + (n % 10)>>

\* the number a run of decimal digits denotes
RECURSIVE DigitsValue(_)
DigitsValue(ds) ==
    IF ds = <<>> THEN 0
    ELSE 10 * DigitsValue(SubSeq(ds, 1, Len(ds) - 1)) + (ds[Len(ds)] - 48)

\* int(text): an optional sign and at least one digit, anything else raises
\* ValueError (the texts tried hold no blanks or underscores)
ParseInt(text) ==
    LET signed == text # <<>> /\ text[1] \in {43, 45}
        body == IF signed THEN Tail(text) ELSE text
        numeric == body # <<>> /\ \A i \in 1..Len(body) : body[i] \in 48..57
    IN  IF numeric
        THEN [raised |-> NoError,
              value |-> IF signed /\ text[1] = 45
                        THEN 0 - DigitsValue(body) ELSE DigitsValue(body)]
        ELSE [raised |-> [type |-> "ValueError", message |-> "invalid literal"],
              value |-> 0]

\* QSlider.setValue(value): the value is kept within minimum..maximum
SetValue(value) ==
    IF value < SliderMinimum THEN SliderMinimum
    ELSE IF value > SliderMaximum THEN SliderMaximum
    ELSE value

\* max(4, min(32, length))
Clamped(length) ==
    LET low == IF SliderMaximum < length THEN SliderMaximum ELSE length
    IN  IF MinLength > low THEN MinLength ELSE low

\* where the user drags the slider to
SliderPositions == {SliderMinimum, SliderMaximum}
\* what the user leaves in the length field: "", "abc", "3", "32", "33"
LengthTexts == {<<>>, <<97, 98, 99>>, Str(3), Str(32), Str(33)}
\* the answers to the confirmation prompt
Replies == {"Yes", "No"}

Frame(handler, password) == [handler |-> handler, password |-> password]
Handled(handler, done, reply) ==
    [handler |-> handler, done |-> done, reply |-> reply]

\* PasswordGeneratorUI.__init__ up to its call of generate_password
InitWindow ==
    /\ password_history = <<>>
    /\ max_history_size = DefaultMaxHistorySize
    /\ history_modes = <<>>
    /\ generated = 0
    /\ call = [op |-> "__init__", length |-> 0, mode |-> "", raised |-> NoError,
               value |-> <<>>, before |-> 0]
    /\ window = "constructing"
    /\ length_slider = SliderValue
    /\ length_display = Str(SliderValue)
    /\ mode_combo = AvailableModes[1]
    /\ password_field = <<>>
    /\ history_list = <<>>
    /\ stack = <<>>
    /\ handled = NoHandler

\* events reach their handlers from the event loop of the shown window or
\* from processEvents in the innermost handler
Delivering == window = "shown"
\* a handler that calls processEvents itself
Nesting == Len(stack) < MaxNesting

\* generate_password (the handler) up to processEvents in
\* animate_password_field: called by __init__ and by the generate button
GenerateClicked(d) ==
    /\ \/ window = "constructing" /\ handled = NoHandler
       \/ Delivering /\ Nesting
    /\ GeneratePassword(length_slider, mode_combo, d)
    /\ IF call'.raised = NoError
       THEN /\ stack' = Append(stack, Frame("generate_password", call'.value))
            /\ handled' = Handled("generate_password", FALSE, "")
            /\ window' = window
       ELSE \* QMessageBox.critical, then the handler returns
            /\ stack' = stack
            /\ handled' = Handled("generate_password", TRUE, "")
            /\ window' = "shown"
    /\ UNCHANGED <<length_slider, length_display, mode_combo, password_field,
                   history_list>>

\* generate_password (the handler) after processEvents: setText(password),
\* update_history_list()
GenerateResumed ==
    /\ stack # <<>>
    /\ stack[Len(stack)].handler = "generate_password"
    /\ password_field' = stack[Len(stack)].password
    /\ GetHistory
    /\ history_list' = call'.value
    /\ stack' = SubSeq(stack, 1, Len(stack) - 1)
    /\ handled' = Handled("generate_password", TRUE, "")
    /\ window' = "shown"
    /\ UNCHANGED <<length_slider, length_display, mode_combo>>

\* select_password_from_history(item) up to processEvents
ItemDoubleClicked(i) ==
    /\ Delivering /\ Nesting
    /\ i \in 1..Len(history_list)
    /\ password_field' = history_list[i]
    /\ stack' = Append(stack, Frame("select_password_from_history", <<>>))
    /\ handled' = Handled("select_password_from_history", FALSE, "")
    /\ UNCHANGED <<vars, window, length_slider, length_display, mode_combo,
                   history_list>>

\* select_password_from_history after processEvents
SelectResumed ==
    /\ stack # <<>>
    /\ stack[Len(stack)].handler = "select_password_from_history"
    /\ stack' = SubSeq(stack, 1, Len(stack) - 1)
    /\ handled' = Handled("select_password_from_history", TRUE, "")
    /\ UNCHANGED <<vars, window, length_slider, length_display, mode_combo,
                   password_field, history_list>>

\* copy_password up to processEvents (with an empty field it returns at once)
CopyClicked ==
    /\ Delivering /\ Nesting
    /\ IF password_field # <<>>
       THEN /\ stack' = Append(stack, Frame("copy_password", <<>>))
            /\ handled' = Handled("copy_password", FALSE, "")
       ELSE /\ stack' = stack
            /\ handled' = Handled("copy_password", TRUE, "")
    /\ UNCHANGED <<vars, window, length_slider, length_display, mode_combo,
                   password_field, history_list>>

\* copy_password after processEvents
CopyResumed ==
    /\ stack # <<>>
    /\ stack[Len(stack)].handler = "copy_password"
    /\ stack' = SubSeq(stack, 1, Len(stack) - 1)
    /\ handled' = Handled("copy_password", TRUE, "")
    /\ UNCHANGED <<vars, window, length_slider, length_display, mode_combo,
                   password_field, history_list>>

\* as ClearClicked, clearing whatever the answer
ClearClicked_AnyReply(reply) ==
    /\ Delivering
    /\ ClearHistory
    /\ history_list' = password_history'
    /\ handled' = Handled("clear_history", TRUE, reply)
    /\ UNCHANGED <<window, length_slider, length_display, mode_combo,
                   password_field, stack>>

\* clear_history (the handler): the prompt is modal, so nothing else is
\* handled until it is answered; on Yes generator.clear_history() and
\* update_history_list()
ClearClicked(reply) ==
    /\ Delivering
    /\ IF reply = "Yes"
       THEN /\ ClearHistory
            /\ history_list' = password_history'
       ELSE UNCHANGED <<vars, history_list>>
    /\ handled' = Handled("clear_history", TRUE, reply)
    /\ UNCHANGED <<window, length_slider, length_display, mode_combo,
                   password_field, stack>>

\* the slider is dragged to a new value: valueChanged, update_length_display
SliderMoved(value) ==
    /\ Delivering
    /\ SetValue(value) # length_slider
    /\ length_slider' = SetValue(value)
    /\ length_display' = Str(length_slider')
    /\ handled' = Handled("update_length_display", TRUE, "")
    /\ UNCHANGED <<vars, window, mode_combo, password_field, history_list,
                   stack>>

\* as LengthEdited, the number typed reaching the slider as it is
LengthEdited_AsTyped(text) ==
    /\ Delivering
    /\ LET parsed == ParseInt(text)
       IN  IF parsed.raised = NoError
           THEN /\ length_slider' = parsed.value
                /\ length_display' = IF length_slider' # length_slider
                                     THEN Str(length_slider') ELSE text
           ELSE /\ length_slider' = length_slider
                /\ length_display' = Str(length_slider)
    /\ handled' = Handled("update_length_slider", TRUE, "")
    /\ UNCHANGED <<vars, window, mode_combo, password_field, history_list,
                   stack>>

\* the length field is left holding text: editingFinished, update_length_slider
\* (setValue emits valueChanged, and so update_length_display, only when the
\* value changes)
LengthEdited(text) ==
    /\ Delivering
    /\ LET parsed == ParseInt(text)
       IN  IF parsed.raised = NoError
           THEN /\ length_slider' = SetValue(Clamped(parsed.value))
                /\ length_display' = IF length_slider' # length_slider
                                     THEN Str(length_slider') ELSE text
           ELSE /\ length_slider' = length_slider
                /\ length_display' = Str(length_slider)
    /\ handled' = Handled("update_length_slider", TRUE, "")
    /\ UNCHANGED <<vars, window, mode_combo, password_field, history_list,
                   stack>>

\* another item of mode_combo is chosen (its items are the available modes)
ModeSelected(mode) ==
    /\ Delivering
    /\ mode \in Range(AvailableModes)
    /\ mode # mode_combo
    /\ mode_combo' = mode
    /\ UNCHANGED <<vars, window, length_slider, length_display, password_field,
                   history_list, stack, handled>>

\* the buttons and the history list
NextWindow ==
    \/ \E d \in Draws : generated < MaxGenerated /\ GenerateClicked(d)
    \/ GenerateResumed
    \/ \E i \in 1..MaxGenerated : ItemDoubleClicked(i)
    \/ SelectResumed
    \/ CopyClicked
    \/ CopyResumed
    \/ \E reply \in Replies : ClearClicked(reply)

\* the application, its settings left as they are at startup
SpecWindow == InitWindow /\ [][NextWindow]_allvars

\* the settings and the generate button
NextSettings ==
    \/ \E d \in Draws : generated < MaxGeneratedSettings /\ GenerateClicked(d)
    \/ GenerateResumed
    \/ \E value \in SliderPositions : SliderMoved(value)
    \/ \E text \in LengthTexts : LengthEdited(text)
    \/ \E mode \in Range(AvailableModes) : ModeSelected(mode)

\* the application, its history never cleared or selected from
SpecSettings == InitWindow /\ [][NextSettings]_allvars

----------------------------------------------------------------------------
(* Properties *)

\* the call recorded in c is a generate_password that returned
Returned(c) == c.op = "generate_password" /\ c.raised = NoError

\* C1: for a generator constructed with a positive capacity, the history is
\* never longer than the capacity, whatever calls were made.
C1_HistoryWithinCapacity ==
    max_history_size > 0 => Len(password_history) <= max_history_size

\* a generate_password that returned on a history that was already full
C1_Witness ==
    /\ Returned(call)
    /\ max_history_size >= 2
    /\ call.before = max_history_size
    /\ Len(password_history) = max_history_size

\* C2: after a generate_password that returns, the returned password is the
\* first entry of the history, and every entry the history had before follows
\* it one place later, in the same order (as far as the capacity reaches).
C2_NewestFirst ==
    [][Returned(call') =>
          /\ Len(password_history') >= 1
          /\ password_history'[1] = call'.value
          /\ \A i \in 1..Len(password_history) :
                 i < max_history_size =>
                     /\ i + 1 <= Len(password_history')
                     /\ password_history'[i + 1] = password_history[i]
          /\ \A i \in 2..Len(password_history') :
                 password_history'[i] = password_history[i - 1]]_vars

\* a returned password at the front, a different older one behind it
C2_Witness ==
    /\ Returned(call)
    /\ Len(password_history) >= 2
    /\ password_history[1] = call.value
    /\ password_history[2] # password_history[1]

\* C3: counting the passwords generated since the history was empty, the
\* history holds min(count, capacity) of them; each generate_password that
\* returns puts its password in front of the entries there were, and when the
\* history was full it drops the last (oldest) of them and no other.
C3_KeepsLastGenerated ==
    /\ [](Len(password_history) = Min(generated, max_history_size))
    /\ [][Returned(call') =>
             password_history' =
                 <<call'.value>> \o
                 (IF Len(password_history) = max_history_size
                  THEN SubSeq(password_history, 1, Len(password_history) - 1)
                  ELSE password_history)]_vars

\* capacity 2, a third password generated: two entries, the third in front
C3_Witness ==
    /\ Returned(call)
    /\ max_history_size = 2
    /\ generated = 3
    /\ call.before = 2
    /\ Len(password_history) = 2
    /\ password_history[1] = call.value
    /\ password_history[1] # password_history[2]

\* the four modes the specification recognises
RecognisedModes ==
    {MODE_LETTERS_ONLY, MODE_LETTERS_DIGITS, MODE_FULL, MODE_READABLE}

\* C4: generate_password with length < 4 raises the length error and leaves
\* the history as it was, entry for entry.
C4_InvalidLengthKeepsHistory ==
    [][(call'.op = "generate_password" /\ call'.length < 4) =>
          /\ call'.raised = InvalidLength
          /\ password_history' = password_history]_vars

\* a length of 3 rejected on a history that holds passwords
C4_Witness ==
    /\ call.op = "generate_password"
    /\ call.length = 3
    /\ call.mode \in RecognisedModes
    /\ call.raised = InvalidLength
    /\ Len(password_history) >= 1
    /\ call.before = Len(password_history)

\* C5: generate_password with length >= 4 and a mode that is none of the four
\* raises the unknown-mode error and leaves the history as it was.
C5_UnknownModeKeepsHistory ==
    [][(/\ call'.op = "generate_password"
        /\ call'.length >= 4
        /\ call'.mode \notin RecognisedModes) =>
          /\ call'.raised = UnknownMode(call'.mode)
          /\ password_history' = password_history]_vars

\* mode "bogus" rejected on a history that holds passwords
C5_Witness ==
    /\ call.op = "generate_password"
    /\ call.length >= 4
    /\ call.mode = "bogus"
    /\ call.raised = UnknownMode("bogus")
    /\ Len(password_history) >= 1
    /\ call.before = Len(password_history)

\* C6: with length < 4 the error is the length error whatever the mode, an
\* unrecognised one included (the length is checked first), and the length
\* error is not the error an unknown mode raises.
C6_LengthCheckedFirst ==
    (call.op = "generate_password" /\ call.length < 4) =>
        /\ call.raised = InvalidLength
        /\ call.raised # UnknownMode(call.mode)
        /\ \A mode \in Modes : InvalidLength # UnknownMode(mode)

\* length 3 with mode "bogus": the length error
C6_Witness ==
    /\ call.op = "generate_password"
    /\ call.length = 3
    /\ call.mode = "bogus"
    /\ call.raised = InvalidLength

\* C7: a generate_password that returns, for a recognised mode and a length
\* >= 4, returns exactly `length` characters, and the entry it put in the
\* history has that length too.
C7_LengthAsRequested ==
    (Returned(call) /\ call.mode \in RecognisedModes /\ call.length >= 4) =>
        /\ Len(call.value) = call.length
        /\ Len(password_history) >= 1
        /\ Len(password_history[1]) = call.length

\* a password of 32 characters returned
C7_Witness ==
    /\ Returned(call)
    /\ call.length = 32
    /\ Len(call.value) = 32
    /\ password_history[1] = call.value

\* the alphabets as the specification states them, as sets of code points
Letters == (65..90) \cup (97..122)
Digits == 48..57
Punctuation == ((33..126) \ Letters) \ Digits
\* i, l, 1, I, o, O, 0
ExclusionSet == {105, 108, 49, 73, 111, 79, 48}
AlphabetOf(mode) ==
    CASE mode = MODE_LETTERS_ONLY -> Letters
      [] mode = MODE_LETTERS_DIGITS -> Letters \cup Digits
      [] mode = MODE_FULL -> Letters \cup Digits \cup Punctuation
      [] mode = MODE_READABLE -> (Letters \cup Digits) \ ExclusionSet

\* C8: every character of a returned password, and of every entry of the
\* history, is in the alphabet of the mode it was requested with; the
\* characters a mode draws from are exactly its alphabet.
C8_CharsInAlphabet ==
    /\ Returned(call) =>
           /\ Range(call.value) \subseteq AlphabetOf(call.mode)
           /\ Range(ResolveMode(call.mode).chars) = AlphabetOf(call.mode)
    /\ \A i \in 1..Len(password_history) :
           Range(password_history[i]) \subseteq AlphabetOf(history_modes[i])

\* a full-mode password with punctuation in front of a letters-only password
C8_Witness ==
    /\ Returned(call)
    /\ call.mode = MODE_FULL
    /\ Range(call.value) \cap Punctuation # {}
    /\ Len(password_history) = 2
    /\ history_modes[2] = MODE_LETTERS_ONLY
    /\ Range(password_history[2]) \subseteq Letters

\* C9: a readable-mode password holds none of i, l, 1, I, o, O, 0, and every
\* other letter and digit is among the characters the mode draws from.
C9_ReadableExcludesSimilar ==
    /\ (Returned(call) /\ call.mode = MODE_READABLE) =>
           /\ Range(call.value) \cap ExclusionSet = {}
           /\ \A c \in (Letters \cup Digits) \ ExclusionSet :
                  c \in Range(ResolveMode(MODE_READABLE).chars)
    /\ \A i \in 1..Len(password_history) :
           history_modes[i] = MODE_READABLE =>
               Range(password_history[i]) \cap ExclusionSet = {}

\* a readable-mode password with a digit and letters that are kept
\* (2, j, K) in it
C9_Witness ==
    /\ Returned(call)
    /\ call.mode = MODE_READABLE
    /\ {50, 106, 75} \subseteq Range(call.value)
    /\ Range(call.value) \cap ExclusionSet = {}

\* C10: clear_history raises nothing and leaves the history empty whatever it
\* held (so a second clear_history leaves it empty again), and it keeps the
\* capacity: the generator is then as one just constructed with that
\* capacity, and the next generate_password that returns leaves exactly its
\* password in the history.
C10_ClearEmpties ==
    /\ [](call.op = "clear_history" =>
              /\ call.raised = NoError
              /\ password_history = <<>>)
    /\ [][call'.op = "clear_history" =>
              max_history_size' = max_history_size]_vars
    /\ [][(call.op = "clear_history" /\ Returned(call')) =>
              password_history' = <<call'.value>>]_vars

\* clear_history called on a full history
C10_Witness ==
    /\ call.op = "clear_history"
    /\ call.before = max_history_size
    /\ max_history_size >= 2
    /\ password_history = <<>>

\* the calls that only look something up
Lookups == {"get_history", "get_available_modes", "get_mode_description"}

\* C11: get_history returns the history as it is, newest first; get_history,
\* get_available_modes and get_mode_description leave the history and the
\* capacity as they were; a get_history that follows a get_history with only
\* lookups in between returns the same sequence.
C11_LookupsChangeNothing ==
    /\ [](call.op = "get_history" =>
              /\ call.raised = NoError
              /\ call.value = password_history)
    /\ [][call'.op \in Lookups =>
              /\ password_history' = password_history
              /\ max_history_size' = max_history_size]_vars
    /\ [][(call.op = "get_history" /\ call'.op = "get_history") =>
              call'.value = call.value]_vars

\* get_history returning two passwords, the newer one (generated on a history
\* of one) first
C11_Witness ==
    /\ call.op = "get_history"
    /\ Len(call.value) = 2
    /\ call.value = password_history
    /\ call.value[1] # call.value[2]
    /\ generated = 2

\* C12: the history changes only in generate_password and clear_history;
\* nothing a client does with the list get_history returned changes it.
C12_OnlyGenerateAndClearWrite ==
    [][password_history' # password_history =>
          call'.op \in {"generate_password", "clear_history"}]_vars

\* C13: get_available_modes returns exactly the four modes;
\* get_mode_description raises nothing, returns a label for each of the four
\* and None for anything else, the modes generate_password rejects as unknown
\* included: the modes with a label are the modes generate_password accepts.
C13_DescriptionsMatchModes ==
    /\ call.op = "get_available_modes" =>
           /\ Len(call.value) = 4
           /\ Range(call.value) = RecognisedModes
    /\ call.op = "get_mode_description" =>
           /\ call.raised = NoError
           /\ (call.mode \in RecognisedModes <=> call.value # <<>>)
           /\ Len(call.value) <= 1
    /\ (call.op = "generate_password" /\ call.raised = UnknownMode(call.mode)) =>
           Description(call.mode) = [raised |-> NoError, value |-> <<>>]
    /\ \A mode \in Modes :
           Description(mode).value # <<>> <=> ResolveMode(mode).raised = NoError

\* the description of "bogus" asked for: None, nothing raised
C13_Witness ==
    /\ call.op = "get_mode_description"
    /\ call.mode = "bogus"
    /\ call.raised = NoError
    /\ call.value = <<>>
    /\ Len(password_history) >= 1

\* C14: in the window generation is not suspended: once a generate handler
\* has finished, the password field shows the entry at index 0 of the history
\* (stated for a history that was not cleared in between)
C14_FieldShowsNewest ==
    (handled.handler = "generate_password" /\ handled.done
        /\ password_history # <<>>) =>
        password_field = password_history[1]

\* C15: the clear handler empties the history only on the answer Yes, on No
\* the history and the list stay as they are, and it never changes the
\* password field
C15_ClearOnlyOnYes ==
    [][handled'.handler = "clear_history" =>
          /\ password_field' = password_field
          /\ handled'.reply = "Yes" => password_history' = <<>>
          /\ handled'.reply # "Yes" =>
                 /\ password_history' = password_history
                 /\ history_list' = history_list]_allvars

\* C15 happens: a history with a password in it was cleared on Yes and the
\* field still shows a password
C15_Witness ==
    /\ handled = Handled("clear_history", TRUE, "Yes")
    /\ password_history = <<>>
    /\ history_list = <<>>
    /\ password_field # <<>>

\* C16: whenever a handler of the shown window has finished, the history list
\* shows the history of the generator, entry for entry
C16_ListShowsHistory ==
    (window = "shown" /\ handled.done) => history_list = password_history

\* with no handler left inside processEvents the list does show the history
ListShowsHistoryAtRest ==
    (window = "shown" /\ stack = <<>>) => history_list = password_history

\* C17: the slider stays within 4..32 and the mode is an available one; an
\* out-of-range number typed is clamped and text that is no number puts the
\* slider value back in the field; every generation from the window is
\* asked for a length in 4..32, raises nothing and puts exactly its password
\* in front of the history
C17_LengthAlwaysValid ==
    /\ [](/\ length_slider \in MinLength..SliderMaximum
          /\ mode_combo \in Range(AvailableModes))
    /\ [][\A text \in LengthTexts :
             (handled'.handler = "update_length_slider" /\ LengthEdited(text)) =>
             LET parsed == ParseInt(text)
             IN  /\ parsed.raised # NoError =>
                        /\ length_slider' = length_slider
                        /\ length_display' = Str(length_slider)
                 /\ (parsed.raised = NoError /\ parsed.value < MinLength) =>
                        length_slider' = MinLength
                 /\ (parsed.raised = NoError /\ parsed.value > SliderMaximum)
                        => length_slider' = SliderMaximum
                 /\ (parsed.raised = NoError
                        /\ parsed.value \in MinLength..SliderMaximum)
                        => length_slider' = parsed.value]_allvars
    /\ [][(handled'.handler = "generate_password"
              /\ \E d \in Draws : GenerateClicked(d)) =>
             /\ call'.length = length_slider
             /\ call'.length \in MinLength..SliderMaximum
             /\ call'.raised = NoError
             /\ Len(password_history') =
                    Min(Len(password_history) + 1, max_history_size)
             /\ password_history'[1] = call'.value
             /\ \A i \in 2..Len(password_history') :
                    password_history'[i] = password_history[i - 1]]_allvars

\* C17 happens: a number below the range was typed with the slider at its
\* minimum, and after the startup password one of the minimum length was
\* generated
C17_Witness ==
    /\ length_display = Str(MinLength - 1)
    /\ length_slider = MinLength
    /\ Len(password_history) = 2
    /\ Len(password_history[1]) = MinLength
    /\ Len(password_history[2]) = SliderValue
    /\ handled = Handled("generate_password", TRUE, "")

====
